---------------------------- MODULE Spec2Model ----------------------------
(***************************************************************************)
(* Model of tools/redex-tool/Tool.cpp: the comparator that orders the dex  *)
(* files of the root directory, load_root_dexen, load_store_dexen,         *)
(* list_modules and Tool::init.                                            *)
(*                                                                         *)
(* Strings are sequences of one-character strings, so that stem(),         *)
(* extension(), rfind, substr, atoi, strcmp and boost::split are computed  *)
(* character by character as the libraries compute them.                   *)
(*                                                                         *)
(* load_jar_file, load_classes_from_dex and DexMetadata::parse are the     *)
(* environment: a load succeeds or fails at each call, a metadata file     *)
(* parses to the content the disk holds or fails. std::sort is the small   *)
(* range algorithm of libstdc++ or of libc++, strcmp returns the byte      *)
(* difference or the sign: comparators that are not strict weak orderings  *)
(* are run through both.                                                   *)
(***************************************************************************)
EXTENDS Integers, Sequences, FiniteSets, TLC

(***************************************************************************)
(* Bounds of the model.                                                    *)
(***************************************************************************)
\* Largest number of entries in the root directory in a run of Tool::init.
MaxEntries == 3
\* Largest number of entries in the root directory in a run of
\* load_root_dexen alone (SpecSort).
MaxFiles == 4

(***************************************************************************)
(* Characters: printable ASCII. The grave accent (code 96) cannot be       *)
(* written in a string of this language and is left out.                   *)
(***************************************************************************)
\* Codes 32 to 95.
AsciiLow ==
  << " ", "!", "\"", "#", "$", "%", "&", "'", "(", ")", "*", "+", ",", "-", ".", "/",
     "0", "1", "2", "3", "4", "5", "6", "7", "8", "9", ":", ";", "<", "=", ">", "?",
     "@", "A", "B", "C", "D", "E", "F", "G", "H", "I", "J", "K", "L", "M", "N", "O",
     "P", "Q", "R", "S", "T", "U", "V", "W", "X", "Y", "Z", "[", "\\", "]", "^", "_" >>

\* Codes 97 to 126.
AsciiHigh ==
  << "a", "b", "c", "d", "e", "f", "g", "h", "i", "j", "k", "l", "m", "n", "o",
     "p", "q", "r", "s", "t", "u", "v", "w", "x", "y", "z", "{", "|", "}", "~" >>

Chars == { AsciiLow[i] : i \in 1..Len(AsciiLow) } \cup { AsciiHigh[i] : i \in 1..Len(AsciiHigh) }

\* The byte value of a character.
Ord ==
  [ c \in Chars |->
      IF \E i \in 1..Len(AsciiLow) : AsciiLow[i] = c
      THEN 31 + (CHOOSE i \in 1..Len(AsciiLow) : AsciiLow[i] = c)
      ELSE 96 + (CHOOSE i \in 1..Len(AsciiHigh) : AsciiHigh[i] = c) ]

isdigit(c) == Ord[c] >= Ord["0"] /\ Ord[c] <= Ord["9"]

\* Of the white space characters only the space is in the character table.
isspace(c) == c = " "

(***************************************************************************)
(* std::string and C string functions used by dex_comparator.              *)
(***************************************************************************)
\* s.rfind(ch): the last position of ch in s (1-based), 0 for npos.
RECURSIVE rfind_from(_, _, _)
rfind_from(s, ch, i) ==
  IF i = 0 THEN 0
  ELSE IF s[i] = ch THEN i
  ELSE rfind_from(s, ch, i - 1)

rfind(s, ch) == rfind_from(s, ch, Len(s))

\* s.substr(pos) with pos 0-based, as in the code: the characters from pos on.
substr(s, pos) == SubSeq(s, pos + 1, Len(s))

\* The byte of the C string s at 1-based position i; the terminating NUL after it.
byte_at(s, i) == IF i > Len(s) THEN 0 ELSE Ord[s[i]]

\* The difference of the first pair of differing bytes, 0 if there is none.
RECURSIVE byte_difference(_, _, _)
byte_difference(a, b, i) ==
  IF byte_at(a, i) # byte_at(b, i) THEN byte_at(a, i) - byte_at(b, i)
  ELSE IF byte_at(a, i) = 0 THEN 0
  ELSE byte_difference(a, b, i + 1)

sign(n) == IF n < 0 THEN -1 ELSE IF n > 0 THEN 1 ELSE 0

\* The digits of s from position i on, accumulated into acc (base 10).
RECURSIVE atoi_digits(_, _, _)
atoi_digits(s, i, acc) ==
  IF i > Len(s) \/ ~isdigit(s[i]) THEN acc
  ELSE atoi_digits(s, i + 1, acc * 10 + (Ord[s[i]] - Ord["0"]))

RECURSIVE skip_space(_, _)
skip_space(s, i) ==
  IF i <= Len(s) /\ isspace(s[i]) THEN skip_space(s, i + 1) ELSE i

\* atoi: leading white space, an optional sign, then the leading decimal
\* digits; 0 when there are none. The names of the model keep the value far
\* below INT_MAX.
atoi(s) ==
  LET i == skip_space(s, 1)
  IN  IF i <= Len(s) /\ s[i] = "-" THEN 0 - atoi_digits(s, i + 1, 0)
      ELSE IF i <= Len(s) /\ s[i] = "+" THEN atoi_digits(s, i + 1, 0)
      ELSE atoi_digits(s, i, 0)

(***************************************************************************)
(* boost::filesystem::path decomposition of a file name.                   *)
(***************************************************************************)
is_dot_or_dotdot(name) == name = <<".">> \/ name = <<".", ".">>

\* path::extension(): from the last dot of the file name on, empty if none.
extension(name) ==
  IF is_dot_or_dotdot(name) \/ rfind(name, ".") = 0 THEN <<>>
  ELSE SubSeq(name, rfind(name, "."), Len(name))

\* path::stem(): the file name without its extension.
stem(name) ==
  IF is_dot_or_dotdot(name) \/ rfind(name, ".") = 0 THEN name
  ELSE SubSeq(name, 1, rfind(name, ".") - 1)

(***************************************************************************)
(* File names, archive lists and metadata contents the runs are drawn from.*)
(***************************************************************************)
\* Root entries of a run of Tool::init.
classes_dex == <<"c", "l", "a", "s", "s", "e", "s", ".", "d", "e", "x">>
secondary_1_dex == <<"s", "e", "c", "o", "n", "d", "a", "r", "y", "-", "1", ".", "d", "e", "x">>
secondary_2_dex == <<"s", "e", "c", "o", "n", "d", "a", "r", "y", "-", "2", ".", "d", "e", "x">>
notes_txt == <<"n", "o", "t", "e", "s", ".", "t", "x", "t">>
\* A directory whose name ends in .dex.
lib_dex == <<"l", "i", "b", ".", "d", "e", "x">>
\* A directory holding the regular file modA.json.
modA == <<"m", "o", "d", "A">>
\* A directory holding module_b.json only.
modB == <<"m", "o", "d", "B">>
\* A directory in which modC.json is itself a directory.
modC == <<"m", "o", "d", "C">>
\* A directory holding a regular file modD.json that the parser rejects.
modD == <<"m", "o", "d", "D">>
\* A directory holding the regular file modE.json.
modE == <<"m", "o", "d", "E">>

\* Further root entries for the runs of load_root_dexen alone.
secondary_10_dex == <<"s", "e", "c", "o", "n", "d", "a", "r", "y", "-", "1", "0", ".", "d", "e", "x">>
secondary_0_dex == <<"s", "e", "c", "o", "n", "d", "a", "r", "y", "-", "0", ".", "d", "e", "x">>
secondary_foo_dex == <<"s", "e", "c", "o", "n", "d", "a", "r", "y", "-", "f", "o", "o", ".", "d", "e", "x">>
secondary_2x_dex == <<"s", "e", "c", "o", "n", "d", "a", "r", "y", "-", "2", "x", ".", "d", "e", "x">>
secondary_plus3_dex == <<"s", "e", "c", "o", "n", "d", "a", "r", "y", "-", "+", "3", ".", "d", "e", "x">>
a_dex == <<"a", ".", "d", "e", "x">>
b_dex == <<"b", ".", "d", "e", "x">>

\* Files the module metadata lists.
modA_b_dex == <<"m", "o", "d", "A", "/", "b", ".", "d", "e", "x">>
modA_a_dex == <<"m", "o", "d", "A", "/", "a", ".", "d", "e", "x">>
modE_2_dex == <<"m", "o", "d", "E", "/", "s", "e", "c", "o", "n", "d", "a", "r", "y", "-", "2", ".", "d", "e", "x">>
modE_1_dex == <<"m", "o", "d", "E", "/", "s", "e", "c", "o", "n", "d", "a", "r", "y", "-", "1", ".", "d", "e", "x">>

\* The literal ".json" of list_modules and Tool::init.
JsonSuffix == <<".", "j", "s", "o", "n">>

\* The literal ".dex" of load_root_dexen.
DexExtension == <<".", "d", "e", "x">>

\* The name of the root store.
RootStoreName == <<"d", "e", "x">>

\* What is on disk under the root directory: each path (a sequence of
\* components below the root) with its file type.
Disk ==
  { [path |-> <<classes_dex>>, type |-> "regular"],
    [path |-> <<secondary_1_dex>>, type |-> "regular"],
    [path |-> <<secondary_2_dex>>, type |-> "regular"],
    [path |-> <<secondary_10_dex>>, type |-> "regular"],
    [path |-> <<secondary_0_dex>>, type |-> "regular"],
    [path |-> <<secondary_foo_dex>>, type |-> "regular"],
    [path |-> <<secondary_2x_dex>>, type |-> "regular"],
    [path |-> <<secondary_plus3_dex>>, type |-> "regular"],
    [path |-> <<a_dex>>, type |-> "regular"],
    [path |-> <<b_dex>>, type |-> "regular"],
    [path |-> <<notes_txt>>, type |-> "regular"],
    [path |-> <<lib_dex>>, type |-> "directory"],
    [path |-> <<modA>>, type |-> "directory"],
    [path |-> <<modA, modA \o JsonSuffix>>, type |-> "regular"],
    [path |-> <<modB>>, type |-> "directory"],
    [path |-> <<modB, <<"m", "o", "d", "u", "l", "e", "_", "b", ".", "j", "s", "o", "n">>>>, type |-> "regular"],
    [path |-> <<modC>>, type |-> "directory"],
    [path |-> <<modC, modC \o JsonSuffix>>, type |-> "directory"],
    [path |-> <<modD>>, type |-> "directory"],
    [path |-> <<modD, modD \o JsonSuffix>>, type |-> "regular"],
    [path |-> <<modE>>, type |-> "directory"],
    [path |-> <<modE, modE \o JsonSuffix>>, type |-> "regular"] }

\* The entries the root directory of a run of Tool::init is drawn from.
RootCatalog ==
  { classes_dex, secondary_1_dex, notes_txt, lib_dex,
    modA, modB, modC, modD, modE }

\* The entries the root directory of a run of load_root_dexen alone is drawn from.
SortCatalog ==
  { classes_dex, a_dex, b_dex, secondary_1_dex, secondary_2_dex,
    secondary_10_dex, secondary_0_dex, secondary_foo_dex, secondary_2x_dex,
    secondary_plus3_dex }

\* What DexMetadata::parse makes of each metadata file: whether it parses,
\* the store id and the files it lists, in its order.
MetadataContent(module) ==
  CASE module = modA -> [well_formed |-> TRUE, id |-> modA, files |-> <<modA_b_dex, modA_a_dex>>]
    [] module = modE -> [well_formed |-> TRUE, id |-> modE, files |-> <<modE_2_dex, modE_1_dex>>]
    [] OTHER -> [well_formed |-> FALSE, id |-> <<>>, files |-> <<>>]

\* The --jars arguments of the runs.
a_jar == <<"a", ".", "j", "a", "r">>
JarLists ==
  { <<"a", ".", "j", "a", "r", ",", "b", ".", "j", "a", "r", ":", "c", ".", "j", "a", "r">>,
    a_jar,
    <<>>,
    <<"a", ".", "j", "a", "r", ",", ":", "b", ".", "j", "a", "r">>,
    <<":", "a", ".", "j", "a", "r", ",">> }

\* The sequences of at most n distinct elements of S.
DistinctSeqs(S, n) ==
  UNION { { f \in [1..k -> S] : \A i, j \in 1..k : i # j => f[i] # f[j] } : k \in 0..n }

(***************************************************************************)
(* State.                                                                  *)
(***************************************************************************)
VARIABLES
  rootIsDir,        \* fs::is_directory(dexen_dir_path)
  system_jar_paths, \* the jar list argument
  listing,          \* the root directory's entries in directory_iterator order
  pc,               \* the position in Tool::init
  system_jars,      \* the split jar list
  idx,              \* the position of the range-for loop under way
  dexen,            \* load_root_dexen's sorted vector
  root_store,       \* the root DexStore
  modules,          \* the result of list_modules
  modIdx,           \* the position of the module loop
  store_metadata,   \* the DexMetadata of the module under way
  store,            \* the DexStore of the module under way
  stores,           \* the DexStoresVector
  scope,            \* the Scope handed to init_reachable_classes
  log,              \* the calls made to the loaders, the parser and the analysis
  error,            \* the exception thrown out of Tool::init
  result            \* the value Tool::init returned

vars ==
  << rootIsDir, system_jar_paths, listing, pc, system_jars,
     idx, dexen, root_store, modules, modIdx, store_metadata, store, stores,
     scope, log, error, result >>

NoError == [kind |-> "none", what |-> <<>>]
NoResult == [returned |-> FALSE, stores |-> <<>>]
\* A store: its name, the module directory it was built from (empty for the
\* root store) and the files whose classes were added, in order.
NoStore == [name |-> <<>>, from |-> <<>>, classes |-> <<>>]
NoMetadata == [well_formed |-> FALSE, id |-> <<>>, files |-> <<>>]

(***************************************************************************)
(* The file system as the code queries it.                                 *)
(***************************************************************************)
\* The file type at a path; "not_found" when nothing is there or when a
\* component that is not a directory is walked through.
status(path) ==
  IF \E e \in Disk : e.path = path
  THEN (CHOOSE e \in Disk : e.path = path).type
  ELSE "not_found"

is_regular_file(path) == status(path) = "regular"
is_directory(path) == status(path) = "directory"
exists(path) == status(path) # "not_found"

(***************************************************************************)
(* dex_comparator and std::sort.                                           *)
(***************************************************************************)
\* What a build fixes and the source does not: the value strcmp returns, of
\* which the C standard fixes the sign only (implementations return the
\* difference of the first differing bytes, or -1, 0, 1), and the standard
\* library whose std::sort is linked.
Builds ==
  [strcmp : {"byte_difference", "sign"}, stdlib : {"libstdc++", "libc++"}]

strcmp(build, a, b) ==
  IF build.strcmp = "byte_difference" THEN byte_difference(a, b, 1)
  ELSE sign(byte_difference(a, b, 1))

\* dex_comparator with the two mixed cases exchanged: dashed names first.
dex_comparator_dashed_first(build, a, b) ==
  LET as == stem(a)
      bs == stem(b)
      adashed == rfind(as, "-") # 0
      bdashed == rfind(bs, "-") # 0
  IN  IF ~adashed /\ bdashed THEN FALSE
      ELSE IF adashed /\ ~bdashed THEN TRUE
      ELSE IF ~adashed /\ ~bdashed THEN strcmp(build, as, bs) > 1
      ELSE LET anum == atoi(substr(as, rfind(as, "-")))
               bnum == atoi(substr(bs, rfind(bs, "-")))
           IN  bnum > anum

\* dex_comparator comparing dashed names as strings, not by their numbers.
dex_comparator_lexicographic(build, a, b) ==
  LET as == stem(a)
      bs == stem(b)
      adashed == rfind(as, "-") # 0
      bdashed == rfind(bs, "-") # 0
  IN  IF ~adashed /\ bdashed THEN TRUE
      ELSE IF adashed /\ ~bdashed THEN FALSE
      ELSE IF ~adashed /\ ~bdashed THEN strcmp(build, as, bs) > 1
      ELSE byte_difference(as, bs, 1) < 0

\* dex_comparator with >= for > in the comparison of the numbers.
dex_comparator_not_strict(build, a, b) ==
  LET as == stem(a)
      bs == stem(b)
      adashed == rfind(as, "-") # 0
      bdashed == rfind(bs, "-") # 0
  IN  IF ~adashed /\ bdashed THEN TRUE
      ELSE IF adashed /\ ~bdashed THEN FALSE
      ELSE IF ~adashed /\ ~bdashed THEN strcmp(build, as, bs) > 1
      ELSE LET anum == atoi(substr(as, rfind(as, "-")))
               bnum == atoi(substr(bs, rfind(bs, "-")))
           IN  bnum >= anum

\* The comparator of lines 28 to 44, on the file names of two paths of the
\* root directory.
dex_comparator(build, a, b) ==
  LET as == stem(a)
      bs == stem(b)
      adashed == rfind(as, "-") # 0
      bdashed == rfind(bs, "-") # 0
  IN  IF ~adashed /\ bdashed THEN TRUE
      ELSE IF adashed /\ ~bdashed THEN FALSE
      ELSE IF ~adashed /\ ~bdashed THEN strcmp(build, as, bs) > 1
      ELSE LET anum == atoi(substr(as, rfind(as, "-")))
               bnum == atoi(substr(bs, rfind(bs, "-")))
           IN  bnum > anum

\* val moved down the sorted range pre from position k while it precedes
\* the element before it.
RECURSIVE linear_insert(_, _, _, _)
linear_insert(build, pre, val, k) ==
  IF k >= 1 /\ dex_comparator(build, val, pre[k]) THEN linear_insert(build, pre, val, k - 1)
  ELSE SubSeq(pre, 1, k) \o <<val>> \o SubSeq(pre, k + 1, Len(pre))

\* libstdc++: std::sort of at most 16 elements is __insertion_sort: an
\* element that precedes the first one is moved to the front, any other is
\* moved down by __unguarded_linear_insert.
RECURSIVE libstdcxx_insertion_sort(_, _, _)
libstdcxx_insertion_sort(build, v, i) ==
  IF i > Len(v) THEN v
  ELSE LET pre == SubSeq(v, 1, i - 1)
           placed == IF dex_comparator(build, v[i], pre[1]) THEN <<v[i]>> \o pre
                     ELSE linear_insert(build, pre, v[i], i - 1)
       IN  libstdcxx_insertion_sort(build, placed \o SubSeq(v, i + 1, Len(v)), i + 1)

\* libc++: __sort3 on three elements.
libcxx_sort3(build, x, y, z) ==
  IF ~dex_comparator(build, y, x)
  THEN IF ~dex_comparator(build, z, y) THEN <<x, y, z>>
       ELSE IF dex_comparator(build, z, x) THEN <<z, x, y>>
       ELSE <<x, z, y>>
  ELSE IF dex_comparator(build, z, y) THEN <<z, y, x>>
       ELSE IF dex_comparator(build, z, x) THEN <<y, z, x>>
       ELSE <<y, x, z>>

\* libc++: the elements from position i on moved down one by one, as
\* __sort4, __sort5 and __insertion_sort_3 do after __sort3.
RECURSIVE libcxx_insert_rest(_, _, _)
libcxx_insert_rest(build, v, i) ==
  IF i > Len(v) THEN v
  ELSE libcxx_insert_rest(
         build,
         linear_insert(build, SubSeq(v, 1, i - 1), v[i], i - 1) \o SubSeq(v, i + 1, Len(v)),
         i + 1)

\* libc++: std::sort of at most 6 elements that are not trivially copyable.
libcxx_sort(build, v) ==
  IF Len(v) <= 1 THEN v
  ELSE IF Len(v) = 2 THEN (IF dex_comparator(build, v[2], v[1]) THEN <<v[2], v[1]>> ELSE v)
  ELSE libcxx_insert_rest(build, libcxx_sort3(build, v[1], v[2], v[3]) \o SubSeq(v, 4, Len(v)), 4)

\* load_root_dexen without the call of std::sort.
std_sort_left_out(build, v) == v

\* std::sort(dexen.begin(), dexen.end(), dex_comparator) of line 57.
std_sort(build, v) ==
  IF build.stdlib = "libstdc++"
  THEN (IF Len(v) <= 1 THEN v ELSE libstdcxx_insertion_sort(build, v, 2))
  ELSE libcxx_sort(build, v)

(***************************************************************************)
(* The helpers of Tool.cpp.                                                *)
(***************************************************************************)
\* The discovery loop without the is_regular_file test of line 51.
discover_dexen_any_type(entries) ==
  SelectSeq(entries, LAMBDA file : extension(file) = DexExtension)

\* The discovery loop of load_root_dexen: the regular files of the root
\* directory whose extension is ".dex", in iteration order.
discover_dexen(entries) ==
  SelectSeq(entries, LAMBDA file : is_regular_file(<<file>>) /\ extension(file) = DexExtension)

\* load_store_dexen sorting the files of the metadata as load_root_dexen does.
module_load_order_sorted(metadata) ==
  std_sort([strcmp |-> "byte_difference", stdlib |-> "libstdc++"], metadata.files)

\* The order in which load_store_dexen loads the files of a module.
module_load_order(metadata) == metadata.files

\* list_modules without the is_regular_file test of the metadata path.
list_modules_any_file_type(entries) ==
  SelectSeq(entries,
            LAMBDA file :
              LET metadata == <<file, file \o JsonSuffix>>
              IN  is_directory(<<file>>) /\ exists(metadata))

\* list_modules: the directories of the root directory that hold a regular
\* file <name>/<name>.json, in iteration order.
list_modules(entries) ==
  SelectSeq(entries,
            LAMBDA file :
              LET metadata == <<file, file \o JsonSuffix>>
              IN  is_directory(<<file>>) /\ is_regular_file(metadata) /\ exists(metadata))

\* boost::split(system_jars, system_jar_paths, is_any_of(":,")): a token
\* ends at every delimiter, adjacent delimiters are not merged.
RECURSIVE split_from(_, _, _, _)
split_from(s, i, token, tokens) ==
  IF i > Len(s) THEN Append(tokens, token)
  ELSE IF s[i] \in {":", ","} THEN split_from(s, i + 1, <<>>, Append(tokens, token))
  ELSE split_from(s, i + 1, Append(token, s[i]), tokens)

\* The split with adjacent delimiters merged: no empty token is produced.
split_token_compress(s) ==
  SelectSeq(split_from(s, 1, <<>>, <<>>), LAMBDA token : token # <<>>)

split(s) == split_from(s, 1, <<>>, <<>>)

\* build_class_scope: the classes of every store, store after store.
RECURSIVE build_class_scope(_)
build_class_scope(ss) ==
  IF ss = <<>> THEN <<>> ELSE Head(ss).classes \o build_class_scope(Tail(ss))

Throw(kind, what) == [kind |-> kind, what |-> what]

Call(op, arg, ok) == [op |-> op, arg |-> arg, ok |-> ok]

(***************************************************************************)
(* Tool::init.                                                             *)
(***************************************************************************)
Init ==
  /\ rootIsDir \in BOOLEAN
  /\ system_jar_paths \in JarLists
  /\ listing \in (IF rootIsDir THEN DistinctSeqs(RootCatalog, MaxEntries) ELSE {<<>>})
  /\ pc = "start"
  /\ system_jars = <<>>
  /\ idx = 1
  /\ dexen = <<>>
  /\ root_store = NoStore
  /\ modules = <<>>
  /\ modIdx = 1
  /\ store_metadata = NoMetadata
  /\ store = NoStore
  /\ stores = <<>>
  /\ scope = <<>>
  /\ log = <<>>
  /\ error = NoError
  /\ result = NoResult

\* Tool::init without the directory check of lines 111 to 114.
CheckDir_without_check ==
  /\ pc = "start"
  /\ system_jars' = split(system_jar_paths)
  /\ pc' = "jars"
  /\ idx' = 1
  /\ UNCHANGED << rootIsDir, system_jar_paths, listing, dexen,
                  root_store, modules, modIdx, store_metadata, store, stores,
                  scope, log, error, result >>

\* Lines 111 to 119: the directory check, then the split of the jar list.
CheckDir ==
  /\ pc = "start"
  /\ IF ~rootIsDir
     THEN /\ error' = Throw("invalid_argument", <<>>)
          /\ pc' = "error"
          /\ UNCHANGED system_jars
     ELSE /\ system_jars' = split(system_jar_paths)
          /\ pc' = "jars"
          /\ UNCHANGED error
  /\ idx' = 1
  /\ UNCHANGED << rootIsDir, system_jar_paths, listing, dexen,
                  root_store, modules, modIdx, store_metadata, store, stores,
                  scope, log, result >>

\* The loop over system_jars going on after an archive that failed to load.
LoadJar_going_on ==
  /\ pc = "jars"
  /\ idx <= Len(system_jars)
  /\ \E ok \in BOOLEAN :
       log' = Append(log, Call("load_jar_file", system_jars[idx], ok))
  /\ idx' = idx + 1
  /\ pc' = IF idx = Len(system_jars) THEN "scan" ELSE "jars"
  /\ UNCHANGED << rootIsDir, system_jar_paths, listing,
                  system_jars, dexen, root_store, modules, modIdx, store_metadata,
                  store, stores, scope, error, result >>

\* The loop over system_jars left after the first archive that loads.
LoadJar_first_only ==
  /\ pc = "jars"
  /\ idx <= Len(system_jars)
  /\ \E ok \in BOOLEAN :
       /\ log' = Append(log, Call("load_jar_file", system_jars[idx], ok))
       /\ IF ok
          THEN /\ idx' = idx + 1
               /\ pc' = "scan"
               /\ UNCHANGED error
          ELSE /\ error' = Throw("runtime_error", system_jars[idx])
               /\ pc' = "error"
               /\ UNCHANGED idx
  /\ UNCHANGED << rootIsDir, system_jar_paths, listing,
                  system_jars, dexen, root_store, modules, modIdx, store_metadata,
                  store, stores, scope, result >>

\* Lines 120 to 125: one turn of the loop over system_jars.
LoadJar ==
  /\ pc = "jars"
  /\ idx <= Len(system_jars)
  /\ \E ok \in BOOLEAN :
       /\ log' = Append(log, Call("load_jar_file", system_jars[idx], ok))
       /\ IF ok
          THEN /\ idx' = idx + 1
               /\ pc' = IF idx = Len(system_jars) THEN "scan" ELSE "jars"
               /\ UNCHANGED error
          ELSE /\ error' = Throw("runtime_error", system_jars[idx])
               /\ pc' = "error"
               /\ UNCHANGED idx
  /\ UNCHANGED << rootIsDir, system_jar_paths, listing,
                  system_jars, dexen, root_store, modules, modIdx, store_metadata,
                  store, stores, scope, result >>

\* Lines 128 to 129 and 48 to 57: the root store is created, the dex files
\* of the root directory are discovered and sorted. The sort is the one
\* place where the build shows, so the build is chosen here.
ScanRoot ==
  /\ pc = "scan"
  /\ root_store' = [name |-> RootStoreName, from |-> <<>>, classes |-> <<>>]
  /\ stores' = <<>>
  /\ \E build \in Builds : dexen' = std_sort(build, discover_dexen(listing))
  /\ idx' = 1
  /\ pc' = "load_root"
  /\ UNCHANGED << rootIsDir, system_jar_paths, listing,
                  system_jars, modules, modIdx, store_metadata, store, scope, log,
                  error, result >>

\* Lines 59 to 63: one turn of the loop over dexen.
LoadRootDex ==
  /\ pc = "load_root"
  /\ idx <= Len(dexen)
  /\ \E ok \in BOOLEAN :
       /\ log' = Append(log, Call("load_classes_from_dex", dexen[idx], ok))
       /\ IF ok
          THEN /\ root_store' = [root_store EXCEPT !.classes = Append(@, dexen[idx])]
               /\ idx' = idx + 1
               /\ UNCHANGED << pc, error >>
          ELSE /\ error' = Throw("load_failure", dexen[idx])
               /\ pc' = "error"
               /\ UNCHANGED << root_store, idx >>
  /\ UNCHANGED << rootIsDir, system_jar_paths, listing,
                  system_jars, dexen, modules, modIdx, store_metadata, store,
                  stores, scope, result >>

\* The modules listed while the last file of the root is still to load.
FinishRoot_before_last_file ==
  /\ pc = "load_root"
  /\ idx >= Len(dexen)
  /\ stores' = Append(stores, root_store)
  /\ modules' = list_modules(listing)
  /\ modIdx' = 1
  /\ pc' = "modules"
  /\ UNCHANGED << rootIsDir, system_jar_paths, listing,
                  system_jars, idx, dexen, root_store, store_metadata, store,
                  scope, log, error, result >>

\* Lines 133 and 136: the root store is appended, the modules are listed.
FinishRoot ==
  /\ pc = "load_root"
  /\ idx > Len(dexen)
  /\ stores' = Append(stores, root_store)
  /\ modules' = list_modules(listing)
  /\ modIdx' = 1
  /\ pc' = "modules"
  /\ UNCHANGED << rootIsDir, system_jar_paths, listing,
                  system_jars, idx, dexen, root_store, store_metadata, store,
                  scope, log, error, result >>

\* The module loop going on to the next module after a metadata file that
\* failed to parse.
ParseModule_skipping_malformed ==
  /\ pc = "modules"
  /\ modIdx <= Len(modules)
  /\ LET module == modules[modIdx]
         parsed == MetadataContent(module)
     IN  /\ log' = Append(log, Call("parse", module, parsed.well_formed))
         /\ IF parsed.well_formed
            THEN /\ store_metadata' = parsed
                 /\ store' = [name |-> parsed.id, from |-> module, classes |-> <<>>]
                 /\ idx' = 1
                 /\ pc' = "load_module"
                 /\ UNCHANGED modIdx
            ELSE /\ modIdx' = modIdx + 1
                 /\ UNCHANGED << store_metadata, store, idx, pc >>
  /\ UNCHANGED << rootIsDir, system_jar_paths, listing,
                  system_jars, dexen, root_store, modules, stores, scope,
                  error, result >>

\* Lines 137 to 145: the metadata of the next module is parsed and its
\* store created.
ParseModule ==
  /\ pc = "modules"
  /\ modIdx <= Len(modules)
  /\ LET module == modules[modIdx]
         parsed == MetadataContent(module)
     IN  /\ log' = Append(log, Call("parse", module, parsed.well_formed))
         /\ IF parsed.well_formed
            THEN /\ store_metadata' = parsed
                 /\ store' = [name |-> parsed.id, from |-> module, classes |-> <<>>]
                 /\ idx' = 1
                 /\ pc' = "load_module"
                 /\ UNCHANGED error
            ELSE /\ error' = Throw("parse_failure", module)
                 /\ pc' = "error"
                 /\ UNCHANGED << store_metadata, store, idx >>
  /\ UNCHANGED << rootIsDir, system_jar_paths, listing,
                  system_jars, dexen, root_store, modules, modIdx, stores, scope,
                  result >>

\* load_store_dexen skipping a file that fails to load.
LoadModuleDex_skipping_failures ==
  /\ pc = "load_module"
  /\ idx <= Len(module_load_order(store_metadata))
  /\ LET file_path == module_load_order(store_metadata)[idx]
     IN  \E ok \in BOOLEAN :
           /\ log' = Append(log, Call("load_classes_from_dex", file_path, ok))
           /\ store' = IF ok THEN [store EXCEPT !.classes = Append(@, file_path)] ELSE store
  /\ idx' = idx + 1
  /\ UNCHANGED << rootIsDir, system_jar_paths, listing,
                  system_jars, dexen, root_store, modules, modIdx, store_metadata,
                  stores, scope, pc, error, result >>

\* Lines 67 to 71: one turn of the loop over the files of the metadata.
LoadModuleDex ==
  /\ pc = "load_module"
  /\ idx <= Len(module_load_order(store_metadata))
  /\ LET file_path == module_load_order(store_metadata)[idx]
     IN  \E ok \in BOOLEAN :
           /\ log' = Append(log, Call("load_classes_from_dex", file_path, ok))
           /\ IF ok
              THEN /\ store' = [store EXCEPT !.classes = Append(@, file_path)]
                   /\ idx' = idx + 1
                   /\ UNCHANGED << pc, error >>
              ELSE /\ error' = Throw("load_failure", file_path)
                   /\ pc' = "error"
                   /\ UNCHANGED << store, idx >>
  /\ UNCHANGED << rootIsDir, system_jar_paths, listing,
                  system_jars, dexen, root_store, modules, modIdx, store_metadata,
                  stores, scope, result >>

\* The store of the module put in front of the stores already there.
AppendModule_in_front ==
  /\ pc = "load_module"
  /\ idx > Len(module_load_order(store_metadata))
  /\ stores' = <<store>> \o stores
  /\ modIdx' = modIdx + 1
  /\ pc' = "modules"
  /\ UNCHANGED << rootIsDir, system_jar_paths, listing,
                  system_jars, idx, dexen, root_store, modules, store_metadata,
                  store, scope, log, error, result >>

\* Line 147: the store of the module is appended, the module loop moves on.
AppendModule ==
  /\ pc = "load_module"
  /\ idx > Len(module_load_order(store_metadata))
  /\ stores' = Append(stores, store)
  /\ modIdx' = modIdx + 1
  /\ pc' = "modules"
  /\ UNCHANGED << rootIsDir, system_jar_paths, listing,
                  system_jars, idx, dexen, root_store, modules, store_metadata,
                  store, scope, log, error, result >>

\* init_reachable_classes called with the last module still to process.
InitReachable_before_last_module ==
  /\ pc = "modules"
  /\ modIdx >= Len(modules)
  /\ scope' = build_class_scope(stores)
  /\ log' = Append(log, Call("init_reachable_classes", <<>>, TRUE))
  /\ pc' = "return"
  /\ UNCHANGED << rootIsDir, system_jar_paths, listing,
                  system_jars, idx, dexen, root_store, modules, modIdx,
                  store_metadata, store, stores, error, result >>

\* Lines 151 to 157: the scope is built and handed to init_reachable_classes.
InitReachable ==
  /\ pc = "modules"
  /\ modIdx > Len(modules)
  /\ scope' = build_class_scope(stores)
  /\ log' = Append(log, Call("init_reachable_classes", <<>>, TRUE))
  /\ pc' = "return"
  /\ UNCHANGED << rootIsDir, system_jar_paths, listing,
                  system_jars, idx, dexen, root_store, modules, modIdx,
                  store_metadata, store, stores, error, result >>

\* Line 159.
Return ==
  /\ pc = "return"
  /\ result' = [returned |-> TRUE, stores |-> stores]
  /\ pc' = "done"
  /\ UNCHANGED << rootIsDir, system_jar_paths, listing,
                  system_jars, idx, dexen, root_store, modules, modIdx,
                  store_metadata, store, stores, scope, log, error >>

Next ==
  \/ CheckDir
  \/ LoadJar
  \/ ScanRoot
  \/ LoadRootDex
  \/ FinishRoot
  \/ ParseModule
  \/ LoadModuleDex
  \/ AppendModule
  \/ InitReachable
  \/ Return

Spec == Init /\ [][Next]_vars

(***************************************************************************)
(* load_root_dexen alone, over a wider choice of file names: Tool::init    *)
(* has loaded the one archive of its jar list and is about to scan.        *)
(***************************************************************************)
InitSort ==
  /\ rootIsDir = TRUE
  /\ system_jar_paths = a_jar
  /\ listing \in DistinctSeqs(SortCatalog, MaxFiles)
  /\ pc = "scan"
  /\ system_jars = split(a_jar)
  /\ idx = 2
  /\ dexen = <<>>
  /\ root_store = NoStore
  /\ modules = <<>>
  /\ modIdx = 1
  /\ store_metadata = NoMetadata
  /\ store = NoStore
  /\ stores = <<>>
  /\ scope = <<>>
  /\ log = << Call("load_jar_file", a_jar, TRUE) >>
  /\ error = NoError
  /\ result = NoResult

NextSort ==
  \/ ScanRoot
  \/ LoadRootDex

SpecSort == InitSort /\ [][NextSort]_vars

(***************************************************************************)
(* Vocabulary of the properties.                                           *)
(***************************************************************************)
Range(f) == { f[i] : i \in DOMAIN f }

\* The calls of one kind, in the order they were made.
CallsOf(op) == SelectSeq(log, LAMBDA c : c.op = op)

JarCalls == CallsOf("load_jar_file")
DexCalls == CallsOf("load_classes_from_dex")

\* The jar list cut at every ',' and ':'.
JarTokens == split(system_jar_paths)

\* The sequences that hold each element of S once.
RECURSIVE Orderings(_)
Orderings(S) ==
  IF S = {} THEN { <<>> }
  ELSE UNION { { <<x>> \o rest : rest \in Orderings(S \ {x}) } : x \in S }

\* The orders in which the entries of the root directory can be iterated.
Reorderings(v) == Orderings(Range(v))

\* load_root_dexen has just sorted the files it discovered.
RootSorted == pc = "load_root" /\ idx = 1

\* load_root_dexen has loaded every file it discovered.
RootLoaded == pc = "load_root" /\ idx > Len(dexen)

\* The base name of a file: its name without the extension.
BaseName(file) == stem(file)

HasDash(s) == \E i \in 1..Len(s) : s[i] = "-"

\* The part of a dashed base name after its last dash.
Suffix(file) ==
  LET base == BaseName(file)
      dashes == { i \in 1..Len(base) : base[i] = "-" }
      last == CHOOSE i \in dashes : \A j \in dashes : j <= i
  IN  SubSeq(base, last + 1, Len(base))

\* The integer parsed from the suffix.
ParsedSuffix(file) == atoi(Suffix(file))

\* The files of the root directory that load_root_dexen is to load.
RootDexFiles ==
  { f \in Range(listing) :
      [path |-> <<f>>, type |-> "regular"] \in Disk /\ extension(f) = DexExtension }

\* The load sequence of the primary store.
RootLoadSequence == root_store.classes

\* The directories of the root directory that qualify as modules: a regular
\* file <root>/<name>/<name>.json is on disk.
Qualifies(name) ==
  /\ [path |-> <<name>>, type |-> "directory"] \in Disk
  /\ [path |-> <<name, name \o <<".", "j", "s", "o", "n">> >>, type |-> "regular"] \in Disk

QualifyingModules == SelectSeq(listing, Qualifies)

\* Neither name precedes the other.
Equivalent(build, a, b) == ~dex_comparator(build, a, b) /\ ~dex_comparator(build, b, a)

\* A suffix made of decimal digits only, and of one at least.
Numeric(s) == s # <<>> /\ \A i \in 1..Len(s) : isdigit(s[i])

\* A suffix with a leading decimal number: digits that only white space and
\* then at most one sign come before.
LeadingNumber(s) ==
  \E k \in 1..Len(s) :
    /\ isdigit(s[k])
    /\ \/ \A j \in 1..(k - 1) : s[j] = " "
       \/ k >= 2 /\ s[k - 1] \in {"+", "-"} /\ \A j \in 1..(k - 2) : s[j] = " "

Dashed(file) == HasDash(BaseName(file))

(***************************************************************************)
(* C1                                                                      *)
(***************************************************************************)
\* C1 as claimed: whatever the files of the root directory, the sequence in
\* which load_root_dexen loads them is the one every other iteration order
\* of the same directory gives.
C1_AnySetLoadsInOneOrder ==
  RootLoaded =>
    \A build \in Builds :
      std_sort(build, discover_dexen(listing)) = RootLoadSequence =>
        \A q \in Reorderings(listing) :
          std_sort(build, discover_dexen(q)) = RootLoadSequence

\* At most one base name has no dash, and no two dashed base names have the
\* same parsed suffix.
C1_StrictlyRanked ==
  /\ \A f, g \in RootDexFiles : (~Dashed(f) /\ ~Dashed(g)) => f = g
  /\ \A f, g \in RootDexFiles :
       (Dashed(f) /\ Dashed(g) /\ ParsedSuffix(f) = ParsedSuffix(g)) => f = g

\* C1, amended: when at most one base name of the root directory's dex files
\* has no dash and the dashed ones have pairwise different parsed suffixes,
\* the load sequence is fixed by the set of files alone (the undashed file,
\* then the dashed ones by strictly ascending suffix) and so is the same for
\* every iteration order of the directory: each order is the listing of
\* some run.
C1_LoadOrderIndependentOfIteration ==
  (RootLoaded /\ C1_StrictlyRanked) =>
    /\ Range(RootLoadSequence) = RootDexFiles
    /\ Len(RootLoadSequence) = Cardinality(RootDexFiles)
    /\ \A i, j \in 1..Len(RootLoadSequence) :
         i < j =>
           /\ Dashed(RootLoadSequence[j])
           /\ Dashed(RootLoadSequence[i]) =>
                ParsedSuffix(RootLoadSequence[i]) < ParsedSuffix(RootLoadSequence[j])

\* The directory lists secondary-2.dex, classes.dex, secondary-10.dex,
\* secondary-1.dex in this order and all four have been loaded.
C1_Witness ==
  /\ RootLoaded
  /\ listing = <<secondary_2_dex, classes_dex, secondary_10_dex, secondary_1_dex>>
  /\ RootLoadSequence = <<classes_dex, secondary_1_dex, secondary_2_dex, secondary_10_dex>>

(***************************************************************************)
(* C2                                                                      *)
(***************************************************************************)
\* C2: the archives are registered in the order of the jar list cut at ','
\* and ':', every attempt before the last one succeeded, and a failed
\* attempt is the last one: the run has ended with a runtime error that
\* names that archive.
C2_JarsLeftToRightFailFast ==
  /\ Len(JarCalls) <= Len(JarTokens)
  /\ \A i \in 1..Len(JarCalls) :
       /\ JarCalls[i].arg = JarTokens[i]
       /\ ~JarCalls[i].ok =>
            /\ i = Len(JarCalls)
            /\ pc = "error"
            /\ error = [kind |-> "runtime_error", what |-> JarTokens[i]]
  /\ error.kind = "runtime_error" =>
       JarCalls # <<>> /\ ~JarCalls[Len(JarCalls)].ok

\* The list is a.jar,b.jar:c.jar; a.jar loaded, b.jar failed and the run
\* ended naming b.jar, with c.jar not attempted.
C2_Witness ==
  /\ system_jar_paths = <<"a", ".", "j", "a", "r", ",", "b", ".", "j", "a", "r", ":", "c", ".", "j", "a", "r">>
  /\ pc = "error"
  /\ error.what = <<"b", ".", "j", "a", "r">>
  /\ Len(JarCalls) = 2
  /\ JarCalls[1].ok

(***************************************************************************)
(* C3                                                                      *)
(***************************************************************************)
\* C3: when a container file is loaded, every archive of the jar list has
\* been registered with success before it; a run in which a registration
\* failed loads no container file.
C3_NoDexBeforeAllJars ==
  /\ DexCalls # <<>> =>
       /\ Len(JarCalls) = Len(JarTokens)
       /\ \A i \in 1..Len(JarCalls) : JarCalls[i].ok /\ JarCalls[i].arg = JarTokens[i]
  /\ \A i, j \in 1..Len(log) :
       (log[i].op = "load_classes_from_dex" /\ log[j].op = "load_jar_file") => j < i
  /\ (\E i \in 1..Len(JarCalls) : ~JarCalls[i].ok) => DexCalls = <<>>

\* The three archives of a.jar,b.jar:c.jar are registered and a container
\* file is being loaded.
C3_Witness ==
  /\ Len(JarTokens) = 3
  /\ Len(JarCalls) = 3
  /\ Len(DexCalls) = 1
  /\ log[Len(log)].op = "load_classes_from_dex"

(***************************************************************************)
(* C4                                                                      *)
(***************************************************************************)
\* C4: once the load of a container file has failed, of the primary store
\* or of a module store, the run has ended with that failure and Tool::init
\* has returned nothing.
C4_AllOrNothing ==
  \A i \in 1..Len(DexCalls) :
    ~DexCalls[i].ok =>
      /\ i = Len(DexCalls)
      /\ pc = "error"
      /\ error = [kind |-> "load_failure", what |-> DexCalls[i].arg]
      /\ result = NoResult

\* The second file of a module fails to load after the root store, holding
\* a file, was appended and the first file of the module was loaded.
C4_Witness ==
  /\ pc = "error"
  /\ error.kind = "load_failure"
  /\ Len(stores) = 1
  /\ stores[1].classes # <<>>
  /\ store.classes # <<>>
  /\ ~DexCalls[Len(DexCalls)].ok

(***************************************************************************)
(* C5                                                                      *)
(***************************************************************************)
\* C5: a run that returns with N qualifying module directories returns N+1
\* stores: the store named "dex" first, then the store of the i-th
\* qualifying directory of the listing at position i+1.
C5_StoreCollectionShape ==
  pc = "done" =>
    /\ result.returned
    /\ Len(result.stores) = Len(QualifyingModules) + 1
    /\ result.stores[1].name = <<"d", "e", "x">>
    /\ result.stores[1].from = <<>>
    /\ \A i \in 1..Len(QualifyingModules) :
         result.stores[i + 1].from = QualifyingModules[i]

\* A run returned three stores, the two modules in directory order.
C5_Witness ==
  /\ pc = "done"
  /\ listing = <<modE, classes_dex, modA>>
  /\ Len(result.stores) = 3
  /\ result.stores[2].from = modE
  /\ result.stores[3].from = modA

(***************************************************************************)
(* C6                                                                      *)
(***************************************************************************)
\* C6: the files loaded into a module store are those its metadata lists,
\* in the order of the metadata: the store under way holds a prefix of the
\* list, a store that was appended holds the whole list.
C6_ModuleFilesInMetadataOrder ==
  /\ \A i \in 2..Len(stores) :
       stores[i].classes = MetadataContent(stores[i].from).files
  /\ pc = "load_module" =>
       store.classes = SubSeq(MetadataContent(store.from).files, 1, Len(store.classes))
  /\ \A i \in 1..Len(DexCalls) :
       \A k \in 1..Len(modules) :
         \A n \in 1..Len(MetadataContent(modules[k]).files) :
           (n > 1 /\ DexCalls[i].arg = MetadataContent(modules[k]).files[n]) =>
              i > 1 /\ DexCalls[i - 1].arg = MetadataContent(modules[k]).files[n - 1]

\* The store of modA, whose metadata lists b.dex and then a.dex, holds b.dex
\* and then a.dex.
C6_Witness ==
  \E i \in 2..Len(stores) :
    /\ stores[i].from = modA
    /\ MetadataContent(modA).files = <<modA_b_dex, modA_a_dex>>
    /\ stores[i].classes = <<modA_b_dex, modA_a_dex>>

(***************************************************************************)
(* C7                                                                      *)
(***************************************************************************)
\* C7: once list_modules has run, an entry of the root directory is in the
\* module list exactly if it is a directory that holds a regular file
\* <name>.json, and nothing else is in the list.
C7_ModuleQualification ==
  stores # <<>> =>
    /\ \A name \in Range(listing) : name \in Range(modules) <=> Qualifies(name)
    /\ Range(modules) \subseteq Range(listing)
    /\ \A i, j \in 1..Len(modules) : i # j => modules[i] # modules[j]

\* The root directory holds modB (module_b.json only), modA and modC (whose
\* modC.json is a directory): modA alone is listed.
C7_Witness ==
  /\ stores # <<>>
  /\ listing = <<modB, modA, modC>>
  /\ modules = <<modA>>

(***************************************************************************)
(* C8                                                                      *)
(***************************************************************************)
\* C8: in the load sequence of the primary store no file with a dash in its
\* base name comes before a file without one.
C8_UndashedBeforeDashed ==
  \A i, j \in 1..Len(RootLoadSequence) :
    i < j => ~(Dashed(RootLoadSequence[i]) /\ ~Dashed(RootLoadSequence[j]))

\* The directory lists a dashed file before two undashed ones and all are
\* loaded.
C8_Witness ==
  /\ RootLoaded
  /\ Len(listing) >= 3
  /\ Dashed(listing[1]) /\ ~Dashed(listing[2]) /\ ~Dashed(listing[3])
  /\ Len(RootLoadSequence) = Len(listing)

(***************************************************************************)
(* C9                                                                      *)
(***************************************************************************)
\* C9: of two dashed files in the load sequence of the primary store, the
\* one loaded first has the smaller or the same parsed suffix.
C9_DashedAscendingBySuffix ==
  \A i, j \in 1..Len(RootLoadSequence) :
    (i < j /\ Dashed(RootLoadSequence[i]) /\ Dashed(RootLoadSequence[j])) =>
      ParsedSuffix(RootLoadSequence[i]) <= ParsedSuffix(RootLoadSequence[j])

\* secondary-10.dex is listed before secondary-2.dex and loaded after it.
C9_Witness ==
  /\ RootLoaded
  /\ \E i, j \in 1..Len(listing) :
       i < j /\ listing[i] = secondary_10_dex /\ listing[j] = secondary_2_dex
  /\ \E i, j \in 1..Len(RootLoadSequence) :
       i < j /\ RootLoadSequence[i] = secondary_2_dex /\ RootLoadSequence[j] = secondary_10_dex

(***************************************************************************)
(* C10                                                                     *)
(***************************************************************************)
\* C10 as claimed: of the files load_root_dexen has sorted, a dashed name whose suffix is not numeric is equivalent
\* to every dashed name with suffix 0 and strictly before every dashed name
\* with a positive numeric suffix.
C10_NonNumericSuffixIsZero ==
  \A a \in (IF RootSorted THEN Range(dexen) ELSE {}) :
    (Dashed(a) /\ ~Numeric(Suffix(a))) =>
      \A b \in Range(dexen) :
        (Dashed(b) /\ Numeric(Suffix(b))) =>
          \A build \in Builds :
            /\ ParsedSuffix(b) = 0 => Equivalent(build, a, b)
            /\ ParsedSuffix(b) > 0 =>
                 dex_comparator(build, a, b) /\ ~dex_comparator(build, b, a)

\* C10, amended: of the files load_root_dexen has sorted, a dashed name whose suffix has no leading decimal number
\* (no digits after optional white space and one optional sign) is
\* equivalent to every dashed name whose suffix parses to 0 and strictly
\* before every dashed name whose suffix parses to a positive number, in
\* the comparator and in the load sequence; a suffix that starts with
\* digits counts as that number.
C10_SuffixWithoutNumberIsZero ==
  /\ \A a \in (IF RootSorted THEN Range(dexen) ELSE {}) :
       (Dashed(a) /\ ~LeadingNumber(Suffix(a))) =>
         \A b \in Range(dexen) :
           Dashed(b) =>
             \A build \in Builds :
               /\ ParsedSuffix(b) = 0 => Equivalent(build, a, b)
               /\ ParsedSuffix(b) > 0 =>
                    dex_comparator(build, a, b) /\ ~dex_comparator(build, b, a)
  /\ \A i \in 1..Len(RootLoadSequence) :
       (Dashed(RootLoadSequence[i]) /\ ~LeadingNumber(Suffix(RootLoadSequence[i]))) =>
         \A j \in 1..(i - 1) :
           ~(Dashed(RootLoadSequence[j]) /\ ParsedSuffix(RootLoadSequence[j]) > 0)
  /\ \A a \in (IF RootSorted THEN Range(dexen) ELSE {}) :
       (Dashed(a) /\ LeadingNumber(Suffix(a))) =>
         \A b \in Range(dexen) :
           (Dashed(b) /\ Numeric(Suffix(b)) /\ ParsedSuffix(b) < ParsedSuffix(a)) =>
             \A build \in Builds : dex_comparator(build, b, a)

\* secondary-foo.dex and secondary-0.dex are loaded next to each other,
\* before a file with a positive suffix.
C10_Witness ==
  /\ RootLoaded
  /\ \E i \in 1..(Len(RootLoadSequence) - 2) :
       /\ {RootLoadSequence[i], RootLoadSequence[i + 1]} = {secondary_foo_dex, secondary_0_dex}
       /\ Dashed(RootLoadSequence[i + 2])
       /\ ParsedSuffix(RootLoadSequence[i + 2]) > 0

(***************************************************************************)
(* C11                                                                     *)
(***************************************************************************)
\* The calls of init_reachable_classes.
ReachCalls == CallsOf("init_reachable_classes")

\* The calls of DexMetadata::parse.
ParseCalls == CallsOf("parse")

\* C11: when the dexen root is not a directory the run fails with the
\* invalid-argument error and with nothing done: no archive registered, no
\* container file loaded, no metadata parsed, no call of
\* init_reachable_classes, nothing returned. No other run fails with that
\* error.
C11_NoDirectoryNoLoading ==
  /\ ~rootIsDir =>
       /\ log = <<>>
       /\ pc \in {"start", "error"}
       /\ pc = "error" => error.kind = "invalid_argument"
       /\ system_jars = <<>>
       /\ stores = <<>>
       /\ ~result.returned
  /\ error.kind = "invalid_argument" => ~rootIsDir

\* The run on a root that is no directory has failed.
C11_Witness ==
  /\ ~rootIsDir
  /\ pc = "error"
  /\ error.kind = "invalid_argument"
  /\ log = <<>>

(***************************************************************************)
(* C12                                                                     *)
(***************************************************************************)
\* C12: init_reachable_classes is called once at most; a run that returned
\* called it once, a run that failed never called it; and when it is called
\* it is the last call made, the primary store holds every dex file of the
\* root, and the store of every qualifying module, with all the files of
\* its metadata loaded, is in the collection after it.
C12_ReachabilityOnceAfterAllStores ==
  /\ Len(ReachCalls) <= 1
  /\ result.returned => Len(ReachCalls) = 1
  /\ (pc = "error" \/ error # NoError) => ReachCalls = <<>>
  /\ ReachCalls # <<>> =>
       /\ log[Len(log)].op = "init_reachable_classes"
       /\ \A i \in 1..Len(log) : log[i].ok
       /\ Len(stores) = Len(QualifyingModules) + 1
       /\ Range(stores[1].classes) = RootDexFiles
       /\ \A k \in 1..Len(QualifyingModules) :
            /\ stores[k + 1].from = QualifyingModules[k]
            /\ stores[k + 1].classes = MetadataContent(QualifyingModules[k]).files

\* A run over a root file and two modules has returned.
C12_Witness ==
  /\ result.returned
  /\ Len(ReachCalls) = 1
  /\ Len(QualifyingModules) = 2
  /\ Len(stores) = 3
  /\ stores[1].classes # <<>>

(***************************************************************************)
(* C13                                                                     *)
(***************************************************************************)
\* The positions in the log of the metadata parses that failed.
FailedParses == { i \in 1..Len(log) : log[i].op = "parse" /\ ~log[i].ok }

\* C13: a metadata parse that failed is the last call of the run: the run
\* is in error with the parse failure of that module, nothing is returned,
\* init_reachable_classes is not called, and no file of that module or of a
\* module discovered after it is loaded.
C13_ParseFailureAborts ==
  \A i \in FailedParses :
    /\ i = Len(log)
    /\ pc = "error"
    /\ error = [kind |-> "parse_failure", what |-> log[i].arg]
    /\ result = NoResult
    /\ ReachCalls = <<>>
    /\ \A m, k \in 1..Len(QualifyingModules) :
         (QualifyingModules[m] = log[i].arg /\ m <= k) =>
           /\ \A c \in Range(DexCalls) :
                c.arg \notin Range(MetadataContent(QualifyingModules[k]).files)
           /\ \A n \in 1..Len(stores) : stores[n].from # QualifyingModules[k]

\* modA is loaded, the metadata of modD fails to parse, modE is left alone.
C13_Witness ==
  /\ listing = <<modA, modD, modE>>
  /\ FailedParses # {}
  /\ pc = "error"
  /\ error = [kind |-> "parse_failure", what |-> modD]
  /\ Len(stores) = 2

(***************************************************************************)
(* C14                                                                     *)
(***************************************************************************)
\* C14: over the files load_root_dexen sorts, dex_comparator is irreflexive,
\* asymmetric and transitive, "neither precedes the other" is transitive,
\* and of two names without a dash the first precedes the second exactly
\* when strcmp of their base names is greater than 1.
C14_StrictWeakOrdering ==
  RootSorted =>
    \A build \in Builds :
      /\ \A a \in Range(dexen) : ~dex_comparator(build, a, a)
      /\ \A a, b \in Range(dexen) :
           /\ dex_comparator(build, a, b) => ~dex_comparator(build, b, a)
           /\ (~Dashed(a) /\ ~Dashed(b)) =>
                (dex_comparator(build, a, b) <=>
                   strcmp(build, BaseName(a), BaseName(b)) > 1)
      /\ \A a, b, c \in Range(dexen) :
           /\ (dex_comparator(build, a, b) /\ dex_comparator(build, b, c)) =>
                dex_comparator(build, a, c)
           /\ (Equivalent(build, a, b) /\ Equivalent(build, b, c)) =>
                Equivalent(build, a, c)

(***************************************************************************)
(* C15                                                                     *)
(***************************************************************************)
\* A load of a file of the root directory.
IsRootLoad(c) == c.op = "load_classes_from_dex" /\ c.arg \in Range(listing)

\* A step of the module loop: a metadata parse or a load of a module file.
IsModuleStep(c) ==
  \/ c.op = "parse"
  \/ c.op = "load_classes_from_dex" /\ c.arg \notin Range(listing)

\* The positions in the log of the metadata parses.
ParsePositions == { i \in 1..Len(log) : log[i].op = "parse" }

\* The loads of the files of a module, in the order of its metadata.
ModuleLoads(module) ==
  LET files == MetadataContent(module).files
  IN  [n \in 1..Len(files) |-> Call("load_classes_from_dex", files[n], TRUE)]

\* C15: no file of the root is loaded after a step of the module loop; once
\* the modules are listed every dex file of the root is loaded; the parses
\* follow the discovery order; and between the parse of a module and the
\* parse of the next one lie the loads of all the files of the former, its
\* store being in the collection by then.
C15_RootThenModulesOneAtATime ==
  /\ \A i, j \in 1..Len(log) :
       (i < j /\ IsModuleStep(log[i])) => ~IsRootLoad(log[j])
  /\ (stores # <<>> \/ modules # <<>> \/ ParseCalls # <<>>) =>
       \A f \in RootDexFiles :
         \E i \in 1..Len(log) : log[i] = Call("load_classes_from_dex", f, TRUE)
  /\ Len(ParseCalls) <= Len(QualifyingModules)
  /\ \A k \in 1..Len(ParseCalls) : ParseCalls[k].arg = QualifyingModules[k]
  /\ \A i, j \in ParsePositions :
       (i < j /\ \A h \in ParsePositions : ~(i < h /\ h < j)) =>
         /\ SubSeq(log, i + 1, j - 1) = ModuleLoads(log[i].arg)
         /\ \E n \in 2..Len(stores) :
              /\ stores[n].from = log[i].arg
              /\ stores[n].classes = MetadataContent(log[i].arg).files
  /\ Len(stores) >= Len(ParseCalls)

\* classes.dex is listed between modE and modA: it is loaded first, then
\* modE is parsed and loaded, then modA.
C15_Witness ==
  /\ listing = <<modE, classes_dex, modA>>
  /\ result.returned
  /\ Len(ParseCalls) = 2
  /\ Len(DexCalls) = 5

(***************************************************************************)
(* C16                                                                     *)
(***************************************************************************)
\* A name that ends with ".dex".
EndsWithDex(name) ==
  /\ Len(name) >= 4
  /\ SubSeq(name, Len(name) - 3, Len(name)) = <<".", "d", "e", "x">>

\* An entry of the root directory that is a regular file.
RegularInRoot(name) ==
  name \in Range(listing) /\ [path |-> <<name>>, type |-> "regular"] \in Disk

\* C16: in a run that returned, every regular file of the root directory
\* that ends with ".dex" is loaded once and is once in the primary store,
\* and the primary store holds nothing else: no directory, no file with
\* another extension, no file of a subdirectory.
C16_PrimaryStoreContent ==
  result.returned =>
    LET primary == result.stores[1].classes
    IN  /\ \A f \in Range(listing) :
             (RegularInRoot(f) /\ EndsWithDex(f)) =>
               /\ Cardinality({ i \in 1..Len(primary) : primary[i] = f }) = 1
               /\ Cardinality({ i \in 1..Len(log) :
                                  log[i].op = "load_classes_from_dex" /\ log[i].arg = f }) = 1
        /\ \A i \in 1..Len(primary) :
             RegularInRoot(primary[i]) /\ EndsWithDex(primary[i])

\* The root holds the directory lib.dex, the module modA with its own dex
\* files and classes.dex: classes.dex alone is in the primary store.
C16_Witness ==
  /\ result.returned
  /\ listing = <<lib_dex, modA, classes_dex>>
  /\ result.stores[1].classes = <<classes_dex>>
  /\ Len(result.stores) = 2

(***************************************************************************)
(* C17                                                                     *)
(***************************************************************************)
\* The positions of the delimiters in a jar list.
DelimiterPositions(s) == { i \in 1..Len(s) : s[i] \in {",", ":"} }

\* The position of the n-th delimiter: 0 before the first one, one past
\* the end after the last one.
Cut(s, n) ==
  IF n = 0 THEN 0
  ELSE IF n > Cardinality(DelimiterPositions(s)) THEN Len(s) + 1
  ELSE CHOOSE i \in DelimiterPositions(s) :
         Cardinality({ j \in DelimiterPositions(s) : j <= i }) = n

\* The text between the (n-1)-th delimiter and the n-th.
TokenBetween(s, n) == SubSeq(s, Cut(s, n - 1) + 1, Cut(s, n) - 1)

\* Every archive of the list is registered.
JarsAllRegistered ==
  /\ rootIsDir
  /\ pc \notin {"start", "jars"}
  /\ error.kind # "runtime_error"

\* C17: the n-th call of load_jar_file gets the text between the (n-1)-th
\* and the n-th delimiter of the list, empty or not, and a list of k
\* delimiters whose archives all load makes k+1 calls.
C17_OneAttemptPerToken ==
  /\ \A n \in 1..Len(JarCalls) :
       /\ n <= Cardinality(DelimiterPositions(system_jar_paths)) + 1
       /\ JarCalls[n].arg = TokenBetween(system_jar_paths, n)
  /\ JarsAllRegistered =>
       Len(JarCalls) = Cardinality(DelimiterPositions(system_jar_paths)) + 1

\* The list ":a.jar," makes three calls, the first and the last with the
\* empty path.
C17_Witness ==
  /\ JarsAllRegistered
  /\ system_jar_paths = <<":", "a", ".", "j", "a", "r", ",">>
  /\ Len(JarCalls) = 3
  /\ JarCalls[1].arg = <<>>
  /\ JarCalls[2].arg = a_jar
  /\ JarCalls[3].arg = <<>>

=============================================================================
